---- MODULE Spec2Model ----
(***************************************************************************)
(* Model of TwitterClient (src/twitter_client.py).                         *)
(* The first part is _split_into_tweets, the routine that splits a long    *)
(* text into a thread of bounded fragments. A text is a sequence of        *)
(* one-character strings; Python's 0-based indexing and slicing are kept   *)
(* by the operators At and Slice.                                          *)
(* The second part is the client object: login and the public methods      *)
(* post_tweet, post_tweet_thread, get_latest_tweet and post_comment. The   *)
(* browser is the environment: each of its operations succeeds or raises.  *)
(***************************************************************************)
EXTENDS Integers, Sequences, FiniteSets, TLC

VARIABLES
    content,      \* the argument of the call
    remaining,    \* the text still to split
    tweets,       \* the list of fragments
    split_index,  \* the index of the last cut of the main loop (0 before the first)
    idx,          \* the index i of the verification loop
    log,          \* the warnings written to the logger
    pc,           \* the position in the running method ("idle" between calls)
    is_logged_in, \* self.is_logged_in
    playwright,   \* "None", "started" (no page was created) or "ready"
    session_saved,\* the storage state was written to session_file
    call          \* the frame of the call of a public method

client == <<is_logged_in, playwright, session_saved, call>>

vars == <<content, remaining, tweets, split_index, idx, log, pc,
          is_logged_in, playwright, session_saved, call>>

(***************************************************************************)
(* Program constants.                                                      *)
(***************************************************************************)
\* The limit before it was reduced to leave a safety margin.
TWEET_LIMIT_unreduced == 280

TWEET_LIMIT == 260

SafetyMargin == 20

(***************************************************************************)
(* Bounds of the model: a content is built from at most MaxTokens tokens,  *)
(* or is a text of at most MaxWords words joined by single spaces, or a    *)
(* text of at most MaxSentences words joined by spaces or sentence endings.*)
(***************************************************************************)
MaxTokens == 3

MaxWords == 5

MaxSentences == 3

(***************************************************************************)
(* Strings.                                                                *)
(***************************************************************************)
Min(a, b) == IF a <= b THEN a ELSE b

Max(a, b) == IF a >= b THEN a ELSE b

\* The characters str.strip() removes, among those the model writes.
Whitespace == {" ", "\n", "\t", "\r"}

\* text[i], 0-based.
At(text, i) == text[i + 1]

\* text[a:b], 0-based, end exclusive, indices clamped to the text as Python does.
Slice(text, a, b) == SubSeq(text, Max(a, 0) + 1, Min(b, Len(text)))

\* text[a:]
SliceFrom(text, a) == Slice(text, a, Len(text))

\* text.lstrip(): the text from its first character that is not whitespace.
LStrip(text) ==
    IF text = <<>> \/ text[1] \notin Whitespace THEN text
    ELSE IF \A k \in 1..Len(text) : text[k] \in Whitespace THEN <<>>
    ELSE LET first == CHOOSE k \in 1..Len(text) :
                          /\ text[k] \notin Whitespace
                          /\ \A j \in 1..(k - 1) : text[j] \in Whitespace
         IN  SubSeq(text, first, Len(text))

\* text.rstrip(): the text up to its last character that is not whitespace.
RStrip(text) ==
    IF text = <<>> \/ text[Len(text)] \notin Whitespace THEN text
    ELSE IF \A k \in 1..Len(text) : text[k] \in Whitespace THEN <<>>
    ELSE LET last == CHOOSE k \in 1..Len(text) :
                         /\ text[k] \notin Whitespace
                         /\ \A j \in (k + 1)..Len(text) : text[j] \in Whitespace
         IN  SubSeq(text, 1, last)

\* A trim that does nothing.
no_trim(text) == text

\* A trim of the leading whitespace only.
trim_left_only(text) == LStrip(text)

\* clean_and_trim(text): text.strip()
clean_and_trim(text) == RStrip(LStrip(text))

\* The list of two-character sentence endings.
sentence_endings ==
    { <<".", " ">>, <<"!", " ">>, <<"?", " ">>,
      <<".", "\n">>, <<"!", "\n">>, <<"?", "\n">> }

\* The state of the scan loop: whether it has ended (by `break` or `return`),
\* the index it returned (0 when it has not returned), and best_split.
ScanStart == [ended |-> FALSE, returned |-> 0, best_split |-> 0]

\* The pass with best_split overwritten at every space met.
ScanBody_overwriting(text, i, st) ==
    IF st.ended THEN st
    ELSE IF i = 0 THEN [st EXCEPT !.ended = TRUE]
    ELSE IF SubSeq(text, i, i + 1) \in sentence_endings
    THEN [st EXCEPT !.ended = TRUE, !.returned = i]
    ELSE IF text[i + 1] = " "
    THEN [st EXCEPT !.best_split = i]
    ELSE st

\* The pass with a terminator accepted whatever follows it.
ScanBody_bare_terminator(text, i, st) ==
    IF st.ended THEN st
    ELSE IF i = 0 THEN [st EXCEPT !.ended = TRUE]
    ELSE IF text[i] \in {".", "!", "?"}
    THEN [st EXCEPT !.ended = TRUE, !.returned = i]
    ELSE IF st.best_split = 0 /\ text[i + 1] = " "
    THEN [st EXCEPT !.best_split = i]
    ELSE st

\* The pass with the test for a sentence ending left out.
ScanBody_no_endings(text, i, st) ==
    IF st.ended THEN st
    ELSE IF i = 0 THEN [st EXCEPT !.ended = TRUE]
    ELSE IF st.best_split = 0 /\ text[i + 1] = " "
    THEN [st EXCEPT !.best_split = i]
    ELSE st

\* One pass of the body of `for i in range(safe_max, -1, -1)`. The loop runs
\* only on a text longer than safe_max, so that text[i-1:i+1] is the two
\* characters at the 1-based positions i and i + 1.
ScanBody(text, i, st) ==
    IF st.ended THEN st
    ELSE IF i = 0 THEN [st EXCEPT !.ended = TRUE]
    ELSE IF SubSeq(text, i, i + 1) \in sentence_endings
    THEN [st EXCEPT !.ended = TRUE, !.returned = i]
    ELSE IF st.best_split = 0 /\ text[i + 1] = " "
    THEN [st EXCEPT !.best_split = i]
    ELSE st

\* The passes for i = hi, hi - 1, ..., lo in that order, started in state st
\* (the range is halved so that the evaluation stays shallow; once the loop
\* has ended the remaining passes do nothing).
RECURSIVE ScanRange(_, _, _, _)
ScanRange(text, hi, lo, st) ==
    IF st.ended \/ hi < lo THEN st
    ELSE IF hi = lo THEN ScanBody(text, hi, st)
    ELSE LET mid == (hi + lo) \div 2
         IN  ScanRange(text, mid, lo, ScanRange(text, hi, mid + 1, st))

\* The early return taken with the comparison turned around.
boundary_flipped_test(text, max_length) ==
    IF Len(text) >= max_length
    THEN Len(text)
    ELSE LET safe_max == Min(max_length - SafetyMargin, Len(text))
             st == ScanRange(text, safe_max, 0, ScanStart)
         IN  IF st.returned > 0 THEN st.returned
             ELSE IF st.best_split > 0 THEN st.best_split
             ELSE Min(max_length - SafetyMargin, Len(text))

\* The fallback cut made at max_length instead of max_length - 20.
boundary_cut_at_limit(text, max_length) ==
    IF Len(text) <= max_length
    THEN Len(text)
    ELSE LET safe_max == Min(max_length - SafetyMargin, Len(text))
             st == ScanRange(text, safe_max, 0, ScanStart)
         IN  IF st.returned > 0 THEN st.returned
             ELSE IF st.best_split > 0 THEN st.best_split
             ELSE Min(max_length, Len(text))

\* The scan started at max_length, without the safety margin.
boundary_no_margin(text, max_length) ==
    IF Len(text) <= max_length
    THEN Len(text)
    ELSE LET safe_max == Min(max_length, Len(text))
             st == ScanRange(text, safe_max, 0, ScanStart)
         IN  IF st.returned > 0 THEN st.returned
             ELSE IF st.best_split > 0 THEN st.best_split
             ELSE Min(max_length - SafetyMargin, Len(text))

\* The remembered word boundary left unused.
boundary_no_word_fallback(text, max_length) ==
    IF Len(text) <= max_length
    THEN Len(text)
    ELSE LET safe_max == Min(max_length - SafetyMargin, Len(text))
             st == ScanRange(text, safe_max, 0, ScanStart)
         IN  IF st.returned > 0 THEN st.returned
             ELSE Min(max_length - SafetyMargin, Len(text))

\* The return of best_split even when no word boundary was found.
boundary_no_hard_cut(text, max_length) ==
    IF Len(text) <= max_length
    THEN Len(text)
    ELSE LET safe_max == Min(max_length - SafetyMargin, Len(text))
             st == ScanRange(text, safe_max, 0, ScanStart)
         IN  IF st.returned > 0 THEN st.returned
             ELSE st.best_split

find_sentence_boundary(text, max_length) ==
    IF Len(text) <= max_length
    THEN Len(text)
    ELSE LET safe_max == Min(max_length - SafetyMargin, Len(text))
             st == ScanRange(text, safe_max, 0, ScanStart)
         IN  IF st.returned > 0 THEN st.returned
             ELSE IF st.best_split > 0 THEN st.best_split
             ELSE Min(max_length - SafetyMargin, Len(text))

(***************************************************************************)
(* Inputs: every concatenation of at most MaxTokens tokens, and the texts  *)
(* of words joined by single spaces or by spaces and sentence endings.     *)
(***************************************************************************)
Run(c, n) == [k \in 1..n |-> c]

Tokens ==
    { Run("a", 1), Run("a", SafetyMargin),
      Run("a", TWEET_LIMIT - SafetyMargin - 1), Run("a", TWEET_LIMIT - SafetyMargin),
      <<" ">>, <<"\n">>, <<".">>, <<"!">>, <<"?">> }

RECURSIVE Texts(_)
Texts(n) ==
    IF n = 0 THEN { <<>> }
    ELSE LET shorter == Texts(n - 1)
         IN  shorter \cup { t \o w : t \in shorter, w \in Tokens }

WordLens == { 1, SafetyMargin, TWEET_LIMIT - SafetyMargin - 1, TWEET_LIMIT - SafetyMargin }

RECURSIVE WordTexts(_)
WordTexts(n) ==
    IF n = 0 THEN { }
    ELSE IF n = 1 THEN { Run("a", k) : k \in WordLens }
    ELSE LET shorter == WordTexts(n - 1)
         IN  shorter \cup { t \o <<" ">> \o Run("a", k) : t \in shorter, k \in WordLens }

SentenceLens == { SafetyMargin, TWEET_LIMIT - SafetyMargin }

Joiners == { <<" ">>, <<" ", " ">>, <<".", " ">>, <<"!", "\n">> }

RECURSIVE SentenceTexts(_)
SentenceTexts(n) ==
    IF n = 0 THEN { }
    ELSE IF n = 1 THEN { Run("a", k) : k \in SentenceLens }
    ELSE LET shorter == SentenceTexts(n - 1)
         IN  shorter \cup { t \o j \o Run("a", k) :
                               t \in shorter, j \in Joiners, k \in SentenceLens }

Inputs == Texts(MaxTokens) \cup WordTexts(MaxWords) \cup SentenceTexts(MaxSentences)

(***************************************************************************)
(* _split_into_tweets(content)                                             *)
(***************************************************************************)
\* The frame of a call of method m with the fragment list l.
NewCall(m, l) ==
    [ method |-> m,              \* the public method called
      content_list |-> l,        \* the argument of post_tweet_thread
      result |-> "running",      \* the value returned, or "raised"
      was_logged_in |-> is_logged_in, \* is_logged_in when the call was made
      login |-> "no",            \* how the login made by the call ended
      attempted |-> FALSE,       \* the body after the login guard was entered
      split_calls |-> 0,         \* the calls of _split_into_tweets
      filled |-> <<>>,           \* the <<box, text>> entered in compose boxes
      add_clicks |-> 0,          \* the clicks on the Add button
      post_clicks |-> 0,         \* the clicks on the post button
      tweet_no |-> 0,            \* the i of `enumerate(content_list[1:], 2)`
      selector_no |-> 0,         \* the username selector tried (1..4)
      username_entered |-> FALSE,\* the local flag of login
      username_written |-> FALSE ] \* some input field took the username

\* The object after __init__, with no call made.
NewClient ==
    /\ is_logged_in = FALSE
    /\ playwright = "None"
    /\ session_saved = FALSE
    /\ call = NewCall("none", <<>>)

Init ==
    /\ content \in Inputs
    /\ remaining = content
    /\ tweets = <<>>
    /\ split_index = 0
    /\ idx = 0
    /\ log = {}
    /\ pc = "loop"
    /\ NewClient

\* `if split_index == 0:` the emergency split at TWEET_LIMIT - 20.
emergency_split(text, cut) ==
    IF cut = 0
    THEN Min(TWEET_LIMIT - SafetyMargin, Len(text))
    ELSE cut

\* `if len(remaining) <= TWEET_LIMIT`
fits_in_one_tweet(text) == Len(text) <= TWEET_LIMIT

\* The cut portion taken without trimming it.
split_portion_untrimmed(text, cut) == Slice(text, 0, cut)

\* clean_and_trim(remaining[:split_index])
split_portion(text, cut) == clean_and_trim(Slice(text, 0, cut))

\* The rest taken from one character after the cut.
rest_skipping_cut_char(text, cut) == clean_and_trim(SliceFrom(text, cut + 1))

\* clean_and_trim(remaining[split_index:])
rest_after_split(text, cut) == clean_and_trim(SliceFrom(text, cut))

\* One evaluation of `while remaining:` and, if it holds, one pass of the body.
WhileStep ==
    /\ pc = "loop"
    /\ IF remaining = <<>>
       THEN /\ pc' = "verify"
            /\ UNCHANGED <<remaining, tweets, split_index, log>>
       ELSE LET text == clean_and_trim(remaining)
            IN  IF text = <<>>
                THEN /\ remaining' = text
                     /\ pc' = "verify"
                     /\ UNCHANGED <<tweets, split_index, log>>
                ELSE IF fits_in_one_tweet(text)
                THEN /\ remaining' = text
                     /\ tweets' = Append(tweets, text)
                     /\ pc' = "verify"
                     /\ UNCHANGED <<split_index, log>>
                ELSE LET found == find_sentence_boundary(text, TWEET_LIMIT)
                         cut == emergency_split(text, found)
                     IN  /\ log' = IF found = 0 THEN log \cup {"no_split_point"} ELSE log
                         /\ split_index' = cut
                         /\ tweets' = Append(tweets, split_portion(text, cut))
                         /\ remaining' = rest_after_split(text, cut)
                         /\ pc' = "loop"
    /\ UNCHANGED <<content, idx>>
    /\ UNCHANGED client

\* One pass of `for i, tweet in enumerate(tweets)`: the list may grow under
\* the iteration, and the inserted element is visited next.
VerifyStep ==
    /\ pc = "verify"
    /\ idx < Len(tweets)
    /\ LET tweet == At(tweets, idx)
       IN  IF Len(tweet) > TWEET_LIMIT
           THEN LET first_part == clean_and_trim(Slice(tweet, 0, TWEET_LIMIT - SafetyMargin))
                    second_part == clean_and_trim(SliceFrom(tweet, TWEET_LIMIT - SafetyMargin))
                IN  /\ tweets' = SubSeq(tweets, 1, idx) \o <<first_part, second_part>>
                                   \o SubSeq(tweets, idx + 2, Len(tweets))
                    /\ log' = log \cup {"forcing_split"}
           ELSE UNCHANGED <<tweets, log>>
    /\ idx' = idx + 1
    /\ UNCHANGED <<content, remaining, split_index, pc>>
    /\ UNCHANGED client

\* The for loop is exhausted: return tweets.
Return ==
    /\ pc = "verify"
    /\ idx >= Len(tweets)
    /\ pc' = "done"
    /\ UNCHANGED <<content, remaining, tweets, split_index, idx, log>>
    /\ UNCHANGED client

Next == WhileStep \/ VerifyStep \/ Return

Spec == Init /\ [][Next]_vars

(***************************************************************************)
(* The client object.                                                      *)
(***************************************************************************)
\* `if len(content) > 280` of post_tweet.
SINGLE_TWEET_MAX == 280

\* The number of username selectors login tries.
UsernameSelectors == 4

\* The contents given to post_tweet: around both thresholds, blank, and long
\* enough for two and three fragments.
PostContents ==
    { Run("a", 1),
      Run("a", TWEET_LIMIT),
      Run("a", TWEET_LIMIT + 1),
      Run("a", SINGLE_TWEET_MAX),
      Run("a", SINGLE_TWEET_MAX + 1),
      Run(" ", SINGLE_TWEET_MAX + 1),
      Run("a", TWEET_LIMIT) \o <<".", " ">> \o Run("a", SafetyMargin),
      Run("a", TWEET_LIMIT) \o <<" ">> \o Run("a", TWEET_LIMIT) \o <<" ">>
          \o Run("a", SafetyMargin) }

\* The lists given to post_tweet_thread: n distinct fragments.
MaxThread == 3

ThreadList(n) == [ k \in 1..n |-> Run("a", k) ]

ThreadLists == { ThreadList(n) : n \in 0..MaxThread }

\* The local variables of _split_into_tweets before it is called.
NoSplit ==
    /\ remaining' = <<>>
    /\ tweets' = <<>>
    /\ split_index' = 0
    /\ idx' = 0
    /\ log' = {}

SplitVars == <<content, remaining, tweets, split_index, idx, log>>

\* The first statement of the body of each method, after its login guard.
Body(m) ==
    CASE m = "post_tweet" -> "post_tweet"
      [] m = "post_tweet_thread" -> "thread_open"
      [] m = "get_latest_tweet" -> "get_latest_tweet"
      [] m = "post_comment" -> "post_comment"

\* `if not self.is_logged_in:` at the head of each public method.
LoginGuard(m) == IF is_logged_in THEN Body(m) ELSE "login_setup"

\* What a method returns when its login guard fails.
FailureValue(m) == IF m = "get_latest_tweet" THEN "None" ELSE "False"

\* login() has no return statement: a call that does not raise yields None.
login_return_value == "None"

\* Python's `not v`.
Falsy(v) == v \in {"None", "False"}

\* The method returns v (or lets an exception escape when v = "raised").
Finish(v) ==
    /\ call' = [call EXCEPT !.result = v]
    /\ pc' = "idle"

CallPostTweet ==
    /\ pc = "idle"
    /\ \E c \in PostContents : content' = c
    /\ NoSplit
    /\ call' = NewCall("post_tweet", <<>>)
    /\ pc' = LoginGuard("post_tweet")
    /\ UNCHANGED <<is_logged_in, playwright, session_saved>>

CallPostTweetThread ==
    /\ pc = "idle"
    /\ \E l \in ThreadLists : call' = NewCall("post_tweet_thread", l)
    /\ content' = <<>>
    /\ NoSplit
    /\ pc' = LoginGuard("post_tweet_thread")
    /\ UNCHANGED <<is_logged_in, playwright, session_saved>>

CallGetLatestTweet ==
    /\ pc = "idle"
    /\ call' = NewCall("get_latest_tweet", <<>>)
    /\ content' = <<>>
    /\ NoSplit
    /\ pc' = LoginGuard("get_latest_tweet")
    /\ UNCHANGED <<is_logged_in, playwright, session_saved>>

CallPostComment ==
    /\ pc = "idle"
    /\ call' = NewCall("post_comment", <<>>)
    /\ content' = <<>>
    /\ NoSplit
    /\ pc' = LoginGuard("post_comment")
    /\ UNCHANGED <<is_logged_in, playwright, session_saved>>

\* login() called by the user of the object: it has no guard on is_logged_in.
CallLogin ==
    /\ pc = "idle"
    /\ call' = NewCall("login", <<>>)
    /\ content' = <<>>
    /\ NoSplit
    /\ pc' = "login_setup"
    /\ UNCHANGED <<is_logged_in, playwright, session_saved>>

(***************************************************************************)
(* login(). An exception raised inside its try block passes through the    *)
(* handler at "login_failed" and is raised again; no caller catches it.    *)
(***************************************************************************)
\* `if self.playwright is None: self._setup_browser()`, before the try block.
\* _setup_browser may raise before playwright is started, or after it and
\* before the page exists.
LoginSetupBrowser ==
    /\ pc = "login_setup"
    /\ IF playwright # "None"
       THEN /\ pc' = "login_navigate"
            /\ UNCHANGED <<playwright, call>>
       ELSE \E outcome \in {"None", "started", "ready"} :
               /\ playwright' = outcome
               /\ IF outcome = "ready"
                  THEN pc' = "login_navigate" /\ UNCHANGED call
                  ELSE /\ call' = [call EXCEPT !.login = "raised", !.result = "raised"]
                       /\ pc' = "idle"
    /\ UNCHANGED <<is_logged_in, session_saved>>
    /\ UNCHANGED SplitVars

\* goto the login page, wait for it, take the screenshot.
LoginNavigate ==
    /\ pc = "login_navigate"
    /\ \E ok \in BOOLEAN :
          IF ok /\ playwright = "ready"
          THEN /\ pc' = "login_username"
               /\ call' = [call EXCEPT !.selector_no = 1]
          ELSE /\ pc' = "login_failed"
               /\ UNCHANGED call
    /\ UNCHANGED <<is_logged_in, playwright, session_saved>>
    /\ UNCHANGED SplitVars

\* `username_entered = True` after page.evaluate returned, whether or not the
\* script found an element to write to.
username_entered_after_js(written) == TRUE

\* One pass of `for selector in username_selectors` and, when the loop is
\* over, `if not username_entered: raise`.
LoginUsername ==
    /\ pc = "login_username"
    /\ \E outcome \in {"filled", "js_written", "js_no_element", "js_raised"} :
          CASE outcome = "filled" ->
                  /\ call' = [call EXCEPT !.username_entered = TRUE,
                                          !.username_written = TRUE]
                  /\ pc' = "login_next"
            [] outcome \in {"js_written", "js_no_element"} ->
                  LET entered == username_entered_after_js(outcome = "js_written")
                  IN  /\ call' = [call EXCEPT !.username_entered = entered,
                                              !.username_written = (outcome = "js_written"),
                                              !.selector_no = IF entered THEN @ ELSE @ + 1]
                      /\ pc' = IF entered THEN "login_next"
                               ELSE IF call.selector_no < UsernameSelectors
                               THEN "login_username" ELSE "login_failed"
            [] outcome = "js_raised" ->
                  IF call.selector_no < UsernameSelectors
                  THEN /\ call' = [call EXCEPT !.selector_no = @ + 1]
                       /\ pc' = "login_username"
                  ELSE /\ pc' = "login_failed"
                       /\ UNCHANGED call
    /\ UNCHANGED <<is_logged_in, playwright, session_saved>>
    /\ UNCHANGED SplitVars

\* Click Next (three approaches) and take the screenshot; the last approach
\* or the screenshot may raise.
LoginNext ==
    /\ pc = "login_next"
    /\ \E ok \in BOOLEAN : pc' = IF ok THEN "login_password" ELSE "login_failed"
    /\ UNCHANGED <<is_logged_in, playwright, session_saved, call>>
    /\ UNCHANGED SplitVars

\* Enter the password, or raise "Could not find or fill password field".
LoginPassword ==
    /\ pc = "login_password"
    /\ \E ok \in BOOLEAN : pc' = IF ok THEN "login_submit" ELSE "login_failed"
    /\ UNCHANGED <<is_logged_in, playwright, session_saved, call>>
    /\ UNCHANGED SplitVars

\* Click "Log in", wait for the page, read its content.
LoginSubmit ==
    /\ pc = "login_submit"
    /\ \E ok \in BOOLEAN : pc' = IF ok THEN "login_security" ELSE "login_failed"
    /\ UNCHANGED <<is_logged_in, playwright, session_saved, call>>
    /\ UNCHANGED SplitVars

\* The security checks: the verification code is fetched and entered, or
\* "Could not get verification code from email" is raised.
LoginSecurity ==
    /\ pc = "login_security"
    /\ \E ok \in BOOLEAN : pc' = IF ok THEN "login_verify" ELSE "login_failed"
    /\ UNCHANGED <<is_logged_in, playwright, session_saved, call>>
    /\ UNCHANGED SplitVars

\* The final check: `if login_success: self.is_logged_in = True` (line 353,
\* before the session state is saved), else raise.
LoginVerify ==
    /\ pc = "login_verify"
    /\ \E login_success \in BOOLEAN :
          IF login_success
          THEN /\ is_logged_in' = TRUE
               /\ pc' = "login_save"
          ELSE /\ pc' = "login_failed"
               /\ UNCHANGED is_logged_in
    /\ UNCHANGED <<playwright, session_saved, call>>
    /\ UNCHANGED SplitVars

\* `self.context.storage_state(path=self.session_file)`; when it raises, the
\* handler of the final check raises "Login verification failed".
LoginSaveSession ==
    /\ pc = "login_save"
    /\ \E ok \in BOOLEAN :
          IF ok
          THEN /\ session_saved' = TRUE
               /\ call' = [call EXCEPT !.login = "returned"]
               /\ pc' = "login_returned"
          ELSE /\ pc' = "login_failed"
               /\ UNCHANGED <<session_saved, call>>
    /\ UNCHANGED <<is_logged_in, playwright>>
    /\ UNCHANGED SplitVars

\* `except Exception as e:` at line 378: log, screenshot, raise. The exception
\* leaves login and the method that called it.
LoginFailed ==
    /\ pc = "login_failed"
    /\ call' = [call EXCEPT !.login = "raised", !.result = "raised"]
    /\ pc' = "idle"
    /\ UNCHANGED <<is_logged_in, playwright, session_saved>>
    /\ UNCHANGED SplitVars

\* login() is over without raising: `if not self.login(): return False`.
LoginReturned ==
    /\ pc = "login_returned"
    /\ IF call.method = "login"
       THEN Finish(login_return_value)
       ELSE IF Falsy(login_return_value)
       THEN Finish(FailureValue(call.method))
       ELSE pc' = Body(call.method) /\ UNCHANGED call
    /\ UNCHANGED <<is_logged_in, playwright, session_saved>>
    /\ UNCHANGED SplitVars

(***************************************************************************)
(* post_tweet(content)                                                     *)
(***************************************************************************)
\* `if len(content) > 280`
needs_thread(text) == Len(text) > SINGLE_TWEET_MAX

\* The call of _split_into_tweets, or the step into _post_single_tweet.
PostTweetDispatch ==
    /\ pc = "post_tweet"
    /\ IF needs_thread(content)
       THEN /\ call' = [call EXCEPT !.attempted = TRUE, !.split_calls = @ + 1]
            /\ remaining' = content
            /\ tweets' = <<>>
            /\ split_index' = 0
            /\ idx' = 0
            /\ log' = {}
            /\ pc' = "loop"
       ELSE /\ call' = [call EXCEPT !.attempted = TRUE]
            /\ pc' = "single_compose"
            /\ UNCHANGED <<remaining, tweets, split_index, idx, log>>
    /\ UNCHANGED <<content, is_logged_in, playwright, session_saved>>

\* `return self.post_tweet_thread(tweet_parts)` with the list returned.
PostTweetThreadCall ==
    /\ pc = "done"
    /\ call.method = "post_tweet"
    /\ call' = [call EXCEPT !.content_list = tweets]
    /\ pc' = LoginGuard("post_tweet_thread")
    /\ UNCHANGED <<is_logged_in, playwright, session_saved>>
    /\ UNCHANGED SplitVars

(***************************************************************************)
(* _post_single_tweet(content)                                             *)
(***************************************************************************)
\* A step of _post_single_tweet: it goes on, returns False, or raises.
\* Go home, take the screenshot, click the compose button.
SingleCompose ==
    /\ pc = "single_compose"
    /\ \E outcome \in {"ok", "False", "raised"} :
          IF outcome = "False" THEN Finish("False")
          ELSE /\ pc' = IF outcome = "ok" THEN "single_fill" ELSE "single_except"
               /\ UNCHANGED call
    /\ UNCHANGED <<is_logged_in, playwright, session_saved>>
    /\ UNCHANGED SplitVars

\* `self.page.fill(selector, content)` with the first selector found.
SingleFill ==
    /\ pc = "single_fill"
    /\ \E outcome \in {"ok", "False", "raised"} :
          CASE outcome = "ok" ->
                  /\ call' = [call EXCEPT !.filled = Append(@, <<0, content>>)]
                  /\ pc' = "single_post"
            [] outcome = "False" -> Finish("False")
            [] outcome = "raised" -> pc' = "single_except" /\ UNCHANGED call
    /\ UNCHANGED <<is_logged_in, playwright, session_saved>>
    /\ UNCHANGED SplitVars

\* Click the post button, then take the last screenshot.
SinglePost ==
    /\ pc = "single_post"
    /\ \E outcome \in {"ok", "False", "raised", "raised_after_click"} :
          CASE outcome = "ok" ->
                  /\ call' = [call EXCEPT !.post_clicks = @ + 1, !.result = "True"]
                  /\ pc' = "idle"
            [] outcome = "False" -> Finish("False")
            [] outcome = "raised" -> pc' = "single_except" /\ UNCHANGED call
            [] outcome = "raised_after_click" ->
                  /\ call' = [call EXCEPT !.post_clicks = @ + 1]
                  /\ pc' = "single_except"
    /\ UNCHANGED <<is_logged_in, playwright, session_saved>>
    /\ UNCHANGED SplitVars

\* `except Exception as e:` the screenshot, then `return False`; the
\* screenshot itself may raise.
SingleExcept ==
    /\ pc = "single_except"
    /\ \E ok \in BOOLEAN : Finish(IF ok THEN "False" ELSE "raised")
    /\ UNCHANGED <<is_logged_in, playwright, session_saved>>
    /\ UNCHANGED SplitVars

(***************************************************************************)
(* post_tweet_thread(content_list), after its login guard. Every exception *)
(* is caught and gives `return False`.                                     *)
(***************************************************************************)
\* goto the compose page, `content_list[0]`, wait for the first box.
ThreadOpen ==
    /\ pc = "thread_open"
    /\ \E ok \in BOOLEAN :
          IF ok /\ call.content_list # <<>>
          THEN /\ call' = [call EXCEPT !.attempted = TRUE]
               /\ pc' = "thread_first"
          ELSE /\ call' = [call EXCEPT !.attempted = TRUE, !.result = "False"]
               /\ pc' = "idle"
    /\ UNCHANGED <<is_logged_in, playwright, session_saved>>
    /\ UNCHANGED SplitVars

\* The position after a fragment was entered: the next pass of the loop or
\* the posting of the thread.
AfterFill(entered_no) ==
    IF entered_no < Len(call.content_list) THEN "thread_add" ELSE "thread_post"

\* Fill box 0 with the first fragment.
ThreadFirst ==
    /\ pc = "thread_first"
    /\ \E ok \in BOOLEAN :
          IF ok
          THEN /\ call' = [call EXCEPT !.filled = Append(@, <<0, call.content_list[1]>>),
                                       !.tweet_no = 2]
               /\ pc' = AfterFill(1)
          ELSE Finish("False")
    /\ UNCHANGED <<is_logged_in, playwright, session_saved>>
    /\ UNCHANGED SplitVars

\* The pass that goes on to fill the next box although the Add click failed.
add_failure_ignored(ok) == "thread_fill"

\* `if not add_button_found: raise`, caught by `return False`.
add_outcome(ok) == IF ok THEN "thread_fill" ELSE "idle"

\* Find and click the Add button for fragment i.
ThreadAdd ==
    /\ pc = "thread_add"
    /\ \E ok \in BOOLEAN :
          /\ pc' = add_outcome(ok)
          /\ call' = IF ok THEN [call EXCEPT !.add_clicks = @ + 1]
                     ELSE IF pc' = "idle" THEN [call EXCEPT !.result = "False"]
                     ELSE call
    /\ UNCHANGED <<is_logged_in, playwright, session_saved>>
    /\ UNCHANGED SplitVars

\* f'[data-testid="tweetTextarea_{i-1}"]'
next_textarea(i) == i - 1

\* Wait for box i-1 and fill it with fragment i.
ThreadFill ==
    /\ pc = "thread_fill"
    /\ \E ok \in BOOLEAN :
          IF ok
          THEN /\ call' = [call EXCEPT
                              !.filled = Append(@, <<next_textarea(call.tweet_no),
                                                     call.content_list[call.tweet_no]>>),
                              !.tweet_no = @ + 1]
               /\ pc' = AfterFill(call.tweet_no)
          ELSE Finish("False")
    /\ UNCHANGED <<is_logged_in, playwright, session_saved>>
    /\ UNCHANGED SplitVars

\* Wait for the post button and click it.
ThreadPost ==
    /\ pc = "thread_post"
    /\ \E ok \in BOOLEAN :
          IF ok
          THEN /\ call' = [call EXCEPT !.post_clicks = @ + 1, !.result = "True"]
               /\ pc' = "idle"
          ELSE Finish("False")
    /\ UNCHANGED <<is_logged_in, playwright, session_saved>>
    /\ UNCHANGED SplitVars

(***************************************************************************)
(* get_latest_tweet and post_comment, after their login guards: the body   *)
(* is one try block whose handler returns the failure value.               *)
(***************************************************************************)
GetLatestTweet ==
    /\ pc = "get_latest_tweet"
    /\ \E v \in {"tweet", "None"} :
          /\ call' = [call EXCEPT !.attempted = TRUE, !.result = v]
          /\ pc' = "idle"
    /\ UNCHANGED <<is_logged_in, playwright, session_saved>>
    /\ UNCHANGED SplitVars

PostComment ==
    /\ pc = "post_comment"
    /\ \E v \in {"True", "False"} :
          /\ call' = [call EXCEPT !.attempted = TRUE, !.result = v]
          /\ pc' = "idle"
    /\ UNCHANGED <<is_logged_in, playwright, session_saved>>
    /\ UNCHANGED SplitVars

\* The object after construction, with no method running.
ClientInit ==
    /\ content = <<>>
    /\ remaining = <<>>
    /\ tweets = <<>>
    /\ split_index = 0
    /\ idx = 0
    /\ log = {}
    /\ pc = "idle"
    /\ NewClient

ClientNext ==
    \/ CallLogin
    \/ CallPostTweet
    \/ CallPostTweetThread
    \/ CallGetLatestTweet
    \/ CallPostComment
    \/ LoginSetupBrowser
    \/ LoginNavigate
    \/ LoginUsername
    \/ LoginNext
    \/ LoginPassword
    \/ LoginSubmit
    \/ LoginSecurity
    \/ LoginVerify
    \/ LoginSaveSession
    \/ LoginFailed
    \/ LoginReturned
    \/ PostTweetDispatch
    \/ WhileStep
    \/ VerifyStep
    \/ Return
    \/ PostTweetThreadCall
    \/ SingleCompose
    \/ SingleFill
    \/ SinglePost
    \/ SingleExcept
    \/ ThreadOpen
    \/ ThreadFirst
    \/ ThreadAdd
    \/ ThreadFill
    \/ ThreadPost
    \/ GetLatestTweet
    \/ PostComment

ClientSpec == ClientInit /\ [][ClientNext]_vars

(***************************************************************************)
(* Vocabulary of the properties.                                           *)
(***************************************************************************)
Terminators == {".", "!", "?"}

IsBlank(text) == \A k \in 1..Len(text) : text[k] \in Whitespace

NonWhitespace(text) == SelectSeq(text, LAMBDA c : c \notin Whitespace)

RECURSIVE Concat(_)
Concat(parts) == IF parts = <<>> THEN <<>> ELSE Head(parts) \o Concat(Tail(parts))

\* The text without its leading and trailing whitespace, for a text that is not blank.
FirstInk(text) ==
    CHOOSE k \in 1..Len(text) :
        text[k] \notin Whitespace /\ \A j \in 1..(k - 1) : text[j] \in Whitespace

LastInk(text) ==
    CHOOSE k \in 1..Len(text) :
        text[k] \notin Whitespace /\ \A j \in (k + 1)..Len(text) : text[j] \in Whitespace

Trimmed(text) == SubSeq(text, FirstInk(text), LastInk(text))

Returned == pc = "done"

\* The trimmed text the loop body works on when it has to cut.
CutText == clean_and_trim(remaining)

Cutting == pc = "loop" /\ Len(CutText) > TWEET_LIMIT

(***************************************************************************)
(* C1: every fragment returned by _split_into_tweets has length at most    *)
(* 260, whatever the content.                                              *)
(***************************************************************************)
C1_FragmentsWithinLimit ==
    Returned => \A k \in 1..Len(tweets) : Len(tweets[k]) <= 260

C1_Witness ==
    /\ Returned
    /\ Len(content) > 260
    /\ Len(tweets) >= 2
    /\ \E k \in 1..Len(tweets) : Len(tweets[k]) = 260

(***************************************************************************)
(* C2: the returned fragments, concatenated in order with all whitespace   *)
(* deleted, are the content with all whitespace deleted.                   *)
(***************************************************************************)
C2_NonWhitespacePreserved ==
    Returned => NonWhitespace(Concat(tweets)) = NonWhitespace(content)

C2_Witness ==
    /\ Returned
    /\ Len(tweets) >= 3
    /\ \E k \in 1..Len(content) : content[k] \in Terminators
    /\ \E k \in 1..Len(content) : content[k] \in Whitespace

(***************************************************************************)
(* C3: an empty or whitespace-only content returns no fragment at all.     *)
(***************************************************************************)
C3_BlankGivesNothing ==
    (Returned /\ IsBlank(content)) => tweets = <<>>

C3_Witness ==
    /\ Returned
    /\ Len(content) >= 2
    /\ IsBlank(content)
    /\ tweets = <<>>

(***************************************************************************)
(* C4: a content of length at most 260 that is not blank returns exactly   *)
(* one fragment, the content without its leading and trailing whitespace.  *)
(***************************************************************************)
C4_ShortGivesOne ==
    (Returned /\ Len(content) <= 260 /\ ~IsBlank(content))
        => tweets = << Trimmed(content) >>

C4_Witness ==
    /\ Returned
    /\ Len(content) = 260
    /\ content[1] \in Whitespace
    /\ Len(tweets) = 1
    /\ Len(tweets[1]) < 260

(***************************************************************************)
(* C5: at every point of the run no fragment is empty and no fragment      *)
(* begins or ends with a whitespace character.                             *)
(***************************************************************************)
C5_FragmentsTrimmed ==
    \A k \in 1..Len(tweets) :
        /\ tweets[k] # <<>>
        /\ tweets[k][1] \notin Whitespace
        /\ tweets[k][Len(tweets[k])] \notin Whitespace

\* Two fragments cut inside a run of two or more whitespace characters.
C5_Witness ==
    /\ Returned
    /\ Len(tweets) = 2
    /\ content[1] \notin Whitespace
    /\ content[Len(content)] \notin Whitespace
    /\ Len(content) >= Len(tweets[1]) + Len(tweets[2]) + 2

(***************************************************************************)
(* C6: the splitting loop terminates: whenever the remaining text is       *)
(* longer than the limit the cut index is at least 1 and less than the     *)
(* length of the text, and every pass of the loop either leaves the loop   *)
(* or leaves a strictly shorter remaining text.                            *)
(***************************************************************************)
C6_LoopTerminates ==
    [][/\ Cutting =>
            /\ split_index' >= 1
            /\ split_index' < Len(CutText)
            /\ pc' = "loop"
       /\ pc = "loop" => (pc' = "verify" \/ Len(remaining') < Len(remaining))]_vars

C6_Witness ==
    /\ pc = "loop"
    /\ Len(tweets) >= 2
    /\ Len(remaining) > TWEET_LIMIT

(***************************************************************************)
(* C8 as stated: a single token of 261..500 characters returns two         *)
(* fragments, the first at most 240 long, the second the rest, both at     *)
(* most 260 long, and the split is made by the post-loop repair pass.      *)
(***************************************************************************)
IsSingleToken(text) ==
    \A k \in 1..Len(text) : text[k] \notin (Whitespace \cup Terminators)

C8_Case == IsSingleToken(content) /\ Len(content) > 260 /\ Len(content) <= 500

C8_SplitByRepairPass ==
    (Returned /\ C8_Case) =>
        /\ Len(tweets) = 2
        /\ Len(tweets[1]) <= 240
        /\ tweets[1] \o tweets[2] = content
        /\ Len(tweets[2]) <= 260
        /\ "forcing_split" \in log

(***************************************************************************)
(* C8 amended: for such a token the main loop itself cuts at 240: when the *)
(* loop is over the fragments are the first 240 characters and the rest,   *)
(* and the repair pass never forces a split.                               *)
(***************************************************************************)
C8_SplitByMainLoop ==
    (pc \in {"verify", "done"} /\ C8_Case) =>
        /\ tweets = << SubSeq(content, 1, 240), SubSeq(content, 241, Len(content)) >>
        /\ Len(tweets[2]) <= 260
        /\ "forcing_split" \notin log

C8_Witness ==
    /\ Returned
    /\ C8_Case
    /\ Len(content) = 500
    /\ Len(tweets) = 2

(***************************************************************************)
(* C9 as stated: when the text to cut is longer than 260 and has a         *)
(* sentence terminator followed by a space at an index between 240 and     *)
(* 260, the cut is made at such a terminator.                              *)
(***************************************************************************)
\* A terminator at 0-based index i - 1 followed by a space at index i.
TerminatorSpaceAt(text, i) == text[i] \in Terminators /\ text[i + 1] = " "

\* One of the code's sentence endings straddling the cut index i.
EndingAt(text, i) ==
    text[i] \in Terminators /\ text[i + 1] \in {" ", "\n"}

MaxOf(S) == CHOOSE m \in S : \A n \in S : n <= m

LateTerminators(text) ==
    { i \in 241..Min(260, Len(text) - 1) : TerminatorSpaceAt(text, i) }

C9_CutAtLateTerminator ==
    [][(Cutting /\ LateTerminators(CutText) # {}) =>
            split_index' \in LateTerminators(CutText)]_vars

(***************************************************************************)
(* C9 amended: the cut index never exceeds 240, so a terminator at an      *)
(* index between 240 and 260 is never the cut point: the cut is made at    *)
(* the rightmost sentence ending whose cut index is at most 240, else at   *)
(* the rightmost space at an index of at most 240, else at 240.            *)
(***************************************************************************)
C9_CutWithinMargin ==
    [][Cutting =>
        LET text == CutText
            endings == { i \in 1..240 : EndingAt(text, i) }
            spaces == { i \in 1..240 : text[i + 1] = " " }
        IN  /\ split_index' <= 240
            /\ split_index' = IF endings # {} THEN MaxOf(endings)
                              ELSE IF spaces # {} THEN MaxOf(spaces)
                              ELSE 240]_vars

\* The loop has just cut at 240 a text without space, newline or terminator
\* up to there, which has a terminator and a space within the next 20 characters.
C9_Witness ==
    /\ pc = "loop"
    /\ split_index = 240
    /\ Len(tweets) = 1
    /\ Len(tweets[1]) = 240
    /\ \A i \in 1..240 : tweets[1][i] \notin (Whitespace \cup Terminators)
    /\ Len(remaining) > 20
    /\ \E i \in 1..20 : TerminatorSpaceAt(remaining, i)

(***************************************************************************)
(* C10: for a content of words of at most 240 characters separated by      *)
(* single spaces, without sentence terminators, every cut is made at a     *)
(* space: the fragments are whole words, joined by single spaces they give *)
(* back the content, and each is at most 260 long.                         *)
(***************************************************************************)
WordStarts(text) ==
    { k \in 1..Len(text) : text[k] # " " /\ (k = 1 \/ text[k - 1] = " ") }

IsWordText(text) ==
    /\ \A k \in 1..Len(text) :
          text[k] = " " \/ text[k] \notin (Whitespace \cup Terminators)
    /\ \A k \in 1..(Len(text) - 1) : ~(text[k] = " " /\ text[k + 1] = " ")
    /\ \A k \in WordStarts(text) :
          \E j \in k..Min(k + 239, Len(text)) : j = Len(text) \/ text[j + 1] = " "
    /\ WordStarts(text) # {}

RECURSIVE JoinWithSpaces(_)
JoinWithSpaces(parts) ==
    IF parts = <<>> THEN <<>>
    ELSE IF Len(parts) = 1 THEN parts[1]
    ELSE parts[1] \o <<" ">> \o JoinWithSpaces(Tail(parts))

C10_WordsNeverCut ==
    (Returned /\ IsWordText(content)) =>
        /\ JoinWithSpaces(tweets) = Trimmed(content)
        /\ \A k \in 1..Len(tweets) : Len(tweets[k]) <= 260

C10_Witness ==
    /\ Returned
    /\ IsWordText(content)
    /\ Len(tweets) >= 4
    /\ \E k \in 1..Len(tweets) : Len(tweets[k]) = 240
    /\ \E k \in 1..Len(tweets) : \E j \in 1..Len(tweets[k]) : tweets[k][j] = " "

(***************************************************************************)
(* The sentence endings and the plain spaces of the scan range 1..240 of   *)
(* a text longer than the limit.                                           *)
(***************************************************************************)
EndingsInRange(text) == { i \in 1..240 : EndingAt(text, i) }

SpacesInRange(text) == { i \in 1..240 : text[i + 1] = " " }

\* A terminator just before the cut index i that no space or newline follows.
BareTerminatorsInRange(text) ==
    { i \in 1..240 : text[i] \in Terminators /\ text[i + 1] \notin {" ", "\n"} }

MinOf(S) == CHOOSE m \in S : \A n \in S : m <= n

(***************************************************************************)
(* C13: when the text to cut has a sentence ending in the scan range, the  *)
(* cut index is the largest index of one, whatever plain spaces lie to its *)
(* right, and the fragment cut ends with the terminator.                   *)
(***************************************************************************)
C13_CutAtRightmostEnding ==
    [][(Cutting /\ EndingsInRange(CutText) # {}) =>
            /\ split_index' = MaxOf(EndingsInRange(CutText))
            /\ tweets'[Len(tweets')][Len(tweets'[Len(tweets')])] \in Terminators]_vars

\* A cut at a sentence ending although a plain space lay to its right, in range.
C13_Witness ==
    /\ pc = "loop"
    /\ Len(tweets) = 1
    /\ split_index = Len(tweets[1])
    /\ tweets[1][split_index] \in Terminators
    /\ \E i \in 2..(240 - split_index) : remaining[i] = " "

(***************************************************************************)
(* C14: when the scan range has no sentence ending, the cut index is the   *)
(* largest index in 1..240 of a plain space, and 240 when it has none.     *)
(***************************************************************************)
C14_CutAtRightmostSpace ==
    [][(Cutting /\ EndingsInRange(CutText) = {}) =>
            split_index' = IF SpacesInRange(CutText) # {}
                           THEN MaxOf(SpacesInRange(CutText))
                           ELSE 240]_vars

\* A cut at the second of two spaces of the range.
C14_Witness ==
    /\ pc = "loop"
    /\ Len(tweets) = 1
    /\ split_index = Len(tweets[1])
    /\ split_index < 240
    /\ \E i \in 1..split_index : tweets[1][i] = " "
    /\ \A i \in 1..split_index : tweets[1][i] \notin Terminators

(***************************************************************************)
(* C15 as stated: the fallback is updated on every space met scanning      *)
(* backward, so without a terminator the cut is at the leftmost space.     *)
(***************************************************************************)
C15_CutAtLeftmostSpace ==
    [][(Cutting /\ EndingsInRange(CutText) = {} /\ SpacesInRange(CutText) # {}) =>
            split_index' = MinOf(SpacesInRange(CutText))]_vars

(***************************************************************************)
(* C15 amended: the fallback is set at the first space met scanning        *)
(* backward and never again (the guard best_split == 0), so without a      *)
(* terminator it holds the rightmost space of the range, which differs     *)
(* from the leftmost one whenever the range has two spaces.                *)
(***************************************************************************)
C15_FallbackKeepsFirstMet ==
    [][(Cutting /\ EndingsInRange(CutText) = {}
                /\ Cardinality(SpacesInRange(CutText)) >= 2) =>
            /\ split_index' = MaxOf(SpacesInRange(CutText))
            /\ split_index' > MinOf(SpacesInRange(CutText))]_vars

\* A cut after the second word of a text of words.
C15_Witness ==
    /\ pc = "loop"
    /\ Len(tweets) = 1
    /\ IsWordText(content)
    /\ Cardinality({ i \in 1..Len(tweets[1]) : tweets[1][i] = " " }) = 1
    /\ Len(remaining) > TWEET_LIMIT

(***************************************************************************)
(* C16 as stated: a terminator in the scan range is a cut point whether or *)
(* not a space or newline follows it.                                      *)
(***************************************************************************)
C16_BareTerminatorAccepted ==
    [][(Cutting /\ BareTerminatorsInRange(CutText) # {}) =>
            split_index' = MaxOf(BareTerminatorsInRange(CutText)
                                    \cup EndingsInRange(CutText))]_vars

(***************************************************************************)
(* C16 amended: a terminator is a cut point only when a space or a newline *)
(* follows it; one followed by another character is passed over, and the   *)
(* cut is at a sentence ending, else at a plain space, else at 240.        *)
(***************************************************************************)
C16_EndingNeedsWhitespace ==
    [][Cutting =>
        LET text == CutText
        IN  /\ EndingsInRange(text) # {} => split_index' \in EndingsInRange(text)
            /\ EndingsInRange(text) = {} =>
                  split_index' \in (SpacesInRange(text) \cup {240})
            /\ split_index' \in BareTerminatorsInRange(text) =>
                  (split_index' = 240 /\ EndingsInRange(text) = {})]_vars

\* A cut at 240 that left in the fragment a terminator followed by a letter.
C16_Witness ==
    /\ pc = "loop"
    /\ Len(tweets) = 1
    /\ split_index = 240
    /\ Len(tweets[1]) = 240
    /\ \E i \in 1..239 : tweets[1][i] \in Terminators /\ tweets[1][i + 1] = "a"
    /\ \A i \in 1..240 : tweets[1][i] \notin Whitespace

(***************************************************************************)
(* C17: the repair pass never splits a fragment and the emergency branch   *)
(* of the main loop is never taken: no warning is ever logged, and when    *)
(* the main loop is over no fragment is longer than the limit.             *)
(***************************************************************************)
C17_RepairNeverTriggers ==
    /\ log = {}
    /\ pc \in {"verify", "done"} => \A k \in 1..Len(tweets) : Len(tweets[k]) <= TWEET_LIMIT

C17_Witness ==
    /\ Returned
    /\ IsSingleToken(content)
    /\ Len(tweets) >= 3
    /\ idx = Len(tweets)
    /\ log = {}

(***************************************************************************)
(* C19: every returned fragment but the last is at most 240 long.          *)
(***************************************************************************)
C19_OnlyLastOverMargin ==
    Returned => \A k \in 1..(Len(tweets) - 1) : Len(tweets[k]) <= 240

C19_Witness ==
    /\ Returned
    /\ Len(tweets) >= 2
    /\ Len(tweets[1]) = 240
    /\ Len(tweets[Len(tweets)]) > 240

(***************************************************************************)
(* Vocabulary of the properties of the client.                             *)
(***************************************************************************)
PublicMethods == {"post_tweet", "post_tweet_thread", "get_latest_tweet", "post_comment"}

\* The call is over.
Ended == pc = "idle" /\ call.method # "none"

\* The call posts a thread: post_tweet_thread, called directly or by post_tweet.
ThreadMode ==
    \/ call.method = "post_tweet_thread"
    \/ call.method = "post_tweet" /\ call.split_calls > 0

(***************************************************************************)
(* C11: post_tweet_thread enters fragment k in box k-1, in the order of    *)
(* the list and after one click on Add for each fragment but the first; it *)
(* clicks the post button at most once, and only when every fragment was   *)
(* entered; when a fill or an Add click fails it returns False and the     *)
(* post button was not clicked.                                            *)
(***************************************************************************)
C11_ThreadInOrder ==
    ThreadMode =>
        LET n == Len(call.filled)
        IN  /\ n <= Len(call.content_list)
            /\ \A k \in 1..n : call.filled[k] = <<k - 1, call.content_list[k]>>
            /\ call.add_clicks \in {Max(n - 1, 0), Min(n, Max(Len(call.content_list) - 1, 0))}
            /\ pc \in {"thread_add", "thread_post"} => call.add_clicks = n - 1
            /\ pc = "thread_fill" => call.add_clicks = n
            /\ call.post_clicks <= 1
            /\ call.post_clicks = 1 =>
                   (n = Len(call.content_list) /\ n >= 1 /\ call.add_clicks = n - 1)
            /\ (Ended /\ call.attempted /\ n < Len(call.content_list)) =>
                   (call.result = "False" /\ call.post_clicks = 0)
            /\ (Ended /\ call.result # "True") => call.post_clicks = 0

\* A thread of three fragments posted.
C11_Witness ==
    /\ Ended
    /\ call.method = "post_tweet_thread"
    /\ Len(call.content_list) = 3
    /\ Len(call.filled) = 3
    /\ call.add_clicks = 2
    /\ call.post_clicks = 1
    /\ call.result = "True"

(***************************************************************************)
(* C12: post_tweet passes every content through _split_into_tweets once,   *)
(* before it enters anything, and enters no text longer than 260.          *)
(***************************************************************************)
C12_EverythingSegmented ==
    (call.method = "post_tweet" /\ call.filled # <<>>) =>
        /\ call.split_calls = 1
        /\ \A k \in 1..Len(call.filled) : Len(call.filled[k][2]) <= 260

(***************************************************************************)
(* C18: a public method called while is_logged_in is false, whose login    *)
(* ends well, goes on to its own steps in the same call.                   *)
(***************************************************************************)
C18_ProceedsAfterLogin ==
    (Ended /\ call.method \in PublicMethods /\ call.login = "returned") =>
        call.attempted

(***************************************************************************)
(* C20: when a login started with is_logged_in false ends by raising,      *)
(* is_logged_in is still false; is_logged_in is true only after a login    *)
(* that was verified and that saved the session state.                     *)
(***************************************************************************)
C20_FlagOnlyAfterSavedLogin ==
    Ended =>
        /\ (call.login = "raised" /\ ~call.was_logged_in) => ~is_logged_in
        /\ is_logged_in => session_saved

(***************************************************************************)
(* C21: post_tweet, post_tweet_thread, get_latest_tweet and post_comment   *)
(* end every call by returning a value: no exception leaves them, also     *)
(* when the login they make fails.                                         *)
(***************************************************************************)
C21_NoExceptionEscapes ==
    (Ended /\ call.method \in PublicMethods) => call.result # "raised"

(***************************************************************************)
(* C22: login is at its password step only when some input field of the   *)
(* page took the username.                                                 *)
(***************************************************************************)
C22_PasswordOnlyAfterUsernameWritten ==
    pc = "login_password" => call.username_written

====
